---- MODULE Spec2Model ----
(***************************************************************************)
(* A model of the bpl package (src/bpl.py): the inverse-transform sampler  *)
(* sample, the closed forms pdf and cdf, and the log-binned histogram with *)
(* its helper _logbins, together with the process-wide generator behind    *)
(* numpy.random.rand.                                                      *)
(*                                                                         *)
(* Numbers are exact.  A value is a record [t, n, d, k, w]:                *)
(*   t = "fin" : the real  sgn(n) * (|n| / d) ^ (1 / k),  d > 0, k >= 1,   *)
(*               kept in a canonical form so that equal reals are equal    *)
(*               records;                                                  *)
(*   t = "inf" : +infinity (n = 1) or -infinity (n = -1);                  *)
(*   t = "nan" : numpy's nan;                                              *)
(*   t = "sym" : the irrational  n / (d * (hi - lo))  with w = <<lo, hi>>. *)
(* The exponent alpha ranges over integers, so beta = 1 - alpha is an      *)
(* integer -k and every power of the code is a k-th root of a rational.    *)
(* Rounding is not modelled: a result stands for the real number the       *)
(* floating-point expression approximates.                                 *)
(*                                                                         *)
(* numpy is the numpy of the code's date (2016): logspace takes the float  *)
(* bin count of _logbins as an integer, and histogram takes any edges that *)
(* do not decrease, nan included.  The interpreter is Python 2 or 3.       *)
(***************************************************************************)
EXTENDS Integers, Sequences, FiniteSets, TLC

VARIABLES rng, seedOf, ret

vars == <<rng, seedOf, ret>>

\* ----------------------------------------------------------------- bounds
MaxAlpha == 3
MaxX == 3
MaxSize == 2
MaxPts == 1
MaxSeed == 1
RngMod == 8
MaxVal == 2
MaxN == 3
NumCallers == 2

\* An optional argument: None is the empty sequence, a given v is <<v>>.
None == <<>>

Some(v) == <<v>>

Callers == 1..NumCallers
Alphas == 1..MaxAlpha
Xs == (-1)..MaxX
Sizes == 1..MaxSize
Seeds == 0..MaxSeed

\* ------------------------------------------------------ integer helpers
Abs(x) == IF x < 0 THEN -x ELSE x

Sgn(x) == IF x < 0 THEN -1 ELSE IF x = 0 THEN 0 ELSE 1

RECURSIVE GCD(_, _)
GCD(a, b) == IF b = 0 THEN a ELSE GCD(b, a % b)

RECURSIVE IPow(_, _)
IPow(b, e) == IF e = 0 THEN 1 ELSE b * IPow(b, e - 1)

\* min(b ^ e, cap + 1), computed without leaving the integers TLC holds.
RECURSIVE CapPow(_, _, _)
CapPow(b, e, cap) ==
  IF e = 0 THEN 1
  ELSE IF b = 0 THEN 0
  ELSE LET p == CapPow(b, e - 1, cap)
       IN  IF p > cap \div b THEN cap + 1 ELSE p * b

RECURSIVE RootSearch(_, _, _)
RootSearch(m, j, r) ==
  LET p == CapPow(r, j, m)
  IN  IF p = m THEN r ELSE IF p > m THEN -1 ELSE RootSearch(m, j, r + 1)

\* The exact j-th root of the natural m, or -1 when m is no j-th power.
IRoot(m, j) == IF j = 1 THEN m ELSE RootSearch(m, j, 0)

RECURSIVE SeqSum(_)
SeqSum(s) == IF s = <<>> THEN 0 ELSE Head(s) + SeqSum(Tail(s))

\* --------------------------------------------------------- exact numbers
NaN == [t |-> "nan", n |-> 0, d |-> 1, k |-> 1, w |-> <<>>]

Inf(s) == [t |-> "inf", n |-> s, d |-> 1, k |-> 1, w |-> <<>>]

\* sgn(n) * (|n| / d) ^ (1 / k) in canonical form: the fraction reduced, and
\* the root index divided by the largest j for which the fraction is a j-th
\* power.
Root(n, d, k) ==
  LET g  == GCD(Abs(n), d)
      m  == Abs(n) \div g
      e  == d \div g
      J  == {j \in 1..k : k % j = 0 /\ IRoot(m, j) >= 0 /\ IRoot(e, j) >= 0}
      j  == CHOOSE x \in J : \A y \in J : y <= x
  IN  IF n = 0
      THEN [t |-> "fin", n |-> 0, d |-> 1, k |-> 1, w |-> <<>>]
      ELSE [t |-> "fin", n |-> Sgn(n) * IRoot(m, j), d |-> IRoot(e, j),
            k |-> k \div j, w |-> <<>>]

Rat(n, d) == IF d < 0 THEN Root(-n, -d, 1) ELSE Root(n, d, 1)

Num(i) == Rat(i, 1)

IsRat(a) == a.t = "fin" /\ a.k = 1

FSgn(a) == Sgn(a.n)

FNeg(a) == [a EXCEPT !.n = -a.n]

\* a < b on reals and infinities; every comparison with nan is false.
Lt(a, b) ==
  IF a.t = "nan" \/ b.t = "nan" \/ a.t = "sym" \/ b.t = "sym" THEN FALSE
  ELSE IF a.t = "inf" THEN a.n = -1 /\ ~(b.t = "inf" /\ b.n = -1)
  ELSE IF b.t = "inf" THEN b.n = 1
  ELSE IF FSgn(a) # FSgn(b) THEN FSgn(a) < FSgn(b)
  ELSE IF FSgn(a) = 0 THEN FALSE
  ELSE LET l == IPow(Abs(a.n), b.k) * IPow(b.d, a.k)
           r == IPow(Abs(b.n), a.k) * IPow(a.d, b.k)
       IN  IF FSgn(a) = 1 THEN l < r ELSE r < l

Le(a, b) ==
  IF a.t = "nan" \/ b.t = "nan" \/ a.t = "sym" \/ b.t = "sym" THEN FALSE
  ELSE ~Lt(b, a)

\* a + b for rationals, infinities and nan (IEEE rules).
FAdd(a, b) ==
  IF a.t = "nan" \/ b.t = "nan" THEN NaN
  ELSE IF a.t = "inf" /\ b.t = "inf" THEN (IF a.n = b.n THEN a ELSE NaN)
  ELSE IF a.t = "inf" THEN a
  ELSE IF b.t = "inf" THEN b
  ELSE Rat(a.n * b.d + b.n * a.d, a.d * b.d)

FSub(a, b) == IF b.t = "nan" THEN NaN ELSE FAdd(a, FNeg(b))

\* a * b for a rational (or infinite, or nan) a and a root b.
FMul(a, b) ==
  IF a.t = "nan" \/ b.t = "nan" THEN NaN
  ELSE IF a.t = "inf" \/ b.t = "inf"
       THEN (IF FSgn(a) * FSgn(b) = 0 THEN NaN ELSE Inf(FSgn(a) * FSgn(b)))
  ELSE Root(FSgn(a) * FSgn(b) * IPow(Abs(a.n), b.k) * Abs(b.n),
            IPow(a.d, b.k) * b.d, b.k)

\* numpy's a / b for rationals: no exception, x / 0 is +-inf and 0 / 0 is nan.
FDiv(a, b) ==
  IF a.t = "nan" \/ b.t = "nan" THEN NaN
  ELSE IF a.t = "inf" THEN (IF b.t = "inf" THEN NaN
                            ELSE Inf(a.n * (IF FSgn(b) < 0 THEN -1 ELSE 1)))
  ELSE IF b.t = "inf" THEN Num(0)
  ELSE IF b.n = 0 THEN (IF a.n = 0 THEN NaN ELSE Inf(FSgn(a)))
  ELSE Rat(a.n * b.d, a.d * b.n)

\* a ** (-e) for a rational a and an integer e >= 1, as numpy computes it on
\* an array: 0 ** (-e) is inf.
NpPowNeg(a, e) ==
  IF a.t = "nan" THEN NaN
  ELSE IF a.t = "inf" THEN Num(0)
  ELSE IF a.n = 0 THEN Inf(1)
  ELSE Rat(IPow(a.d, e), IPow(a.n, e))

\* a ** (1 / beta) with beta = -k, as numpy computes it on an array: the
\* k-th root of 1 / a; nan for a negative base under a fractional exponent.
NpPowRecip(a, k) ==
  IF a.t = "nan" THEN NaN
  ELSE IF a.t = "inf" THEN Num(0)
  ELSE IF a.n = 0 THEN Inf(1)
  ELSE IF a.n < 0 THEN (IF k = 1 THEN Rat(a.d, a.n) ELSE NaN)
  ELSE Root(a.d, a.n, k)

\* ------------------------------------------------- the random generator
\* numpy.random's process-wide generator: one state, advanced by every draw.
RngNext(s) == (5 * s + 3) % RngMod

\* The uniform deviate in [0, 1) a state yields.
RngOut(s) == Rat(s, RngMod)

RECURSIVE RngAfter(_, _)
RngAfter(s, size) == IF size = 0 THEN s ELSE RngAfter(RngNext(s), size - 1)

\* numpy.random.rand(size) from state s: the deviates drawn.
Rand(s, size) == [i \in 1..size |-> RngOut(RngAfter(s, i - 1))]

\* numpy.random.seed(sd): the state a seed sets.
SeedState(sd) == sd % RngMod

\* ------------------------------------------------------- sample, pdf, cdf
\* Python's "not xmax": None and 0 are both absent.
NotXmax(xmax) == xmax = None \/ xmax = Some(0)

\* One element of the unbounded branch of sample (line 144).
SampleUnbounded(r, alpha, xmin) ==
  FMul(Num(xmin), NpPowRecip(FSub(Num(1), r), alpha - 1))

\* The bounded branch with the sign of a wrong in b.
SampleBoundedWrongSign(r, alpha, xmin, xmax) ==
  LET a == NpPowNeg(Num(xmin), alpha - 1)
      b == FAdd(NpPowNeg(Num(xmax[1]), alpha - 1), a)
  IN  NpPowRecip(FAdd(a, FMul(r, b)), alpha - 1)

\* One element of the bounded branch of sample (lines 146-148).
SampleBounded(r, alpha, xmin, xmax) ==
  LET a == NpPowNeg(Num(xmin), alpha - 1)
      b == FSub(NpPowNeg(Num(xmax[1]), alpha - 1), a)
  IN  NpPowRecip(FAdd(a, FMul(r, b)), alpha - 1)

\* sample(alpha, size, xmin, xmax) with the generator in state s.
sample(s, alpha, size, xmin, xmax) ==
  IF ~(alpha > 1) THEN [status |-> "AssertionError", val |-> <<>>]
  ELSE IF NotXmax(xmax)
  THEN [status |-> "ok",
        val |-> [i \in 1..size |-> SampleUnbounded(Rand(s, size)[i], alpha, xmin)]]
  ELSE IF xmin = 0 THEN [status |-> "ZeroDivisionError", val |-> <<>>]
  ELSE [status |-> "ok",
        val |-> [i \in 1..size |->
                   SampleBounded(Rand(s, size)[i], alpha, xmin, xmax)]]

\* One element of the unbounded branch of pdf (lines 181-182).
PdfUnbounded(x, alpha, xmin) ==
  LET k == FDiv(Num(alpha - 1), NpPowNeg(Num(xmin), alpha - 1))
  IN  FMul(k, NpPowNeg(Num(x), alpha))

\* k of the bounded branches of pdf and cdf (lines 184, 221).
BoundedK(alpha, xmin, xmax) ==
  FSub(NpPowNeg(Num(xmax[1]), alpha - 1), NpPowNeg(Num(xmin), alpha - 1))

\* One element of the bounded branch of pdf (line 185).
PdfBounded(x, alpha, xmin, xmax) ==
  FMul(FDiv(Num(1 - alpha), BoundedK(alpha, xmin, xmax)),
       NpPowNeg(Num(x), alpha))

\* pdf(x, alpha, xmin, xmax), elementwise over the points x.  The scalar
\* powers and quotients are Python's, which raise on a zero base or divisor.
pdf(x, alpha, xmin, xmax) ==
  IF ~(alpha > 1) THEN [status |-> "AssertionError", val |-> <<>>]
  ELSE IF xmin = 0 THEN [status |-> "ZeroDivisionError", val |-> <<>>]
  ELSE IF NotXmax(xmax)
  THEN [status |-> "ok",
        val |-> [i \in 1..Len(x) |-> PdfUnbounded(x[i], alpha, xmin)]]
  ELSE IF BoundedK(alpha, xmin, xmax).n = 0
  THEN [status |-> "ZeroDivisionError", val |-> <<>>]
  ELSE [status |-> "ok",
        val |-> [i \in 1..Len(x) |-> PdfBounded(x[i], alpha, xmin, xmax)]]

\* One element of the unbounded branch of cdf (lines 218-219).
CdfUnbounded(x, alpha, xmin) ==
  FSub(Num(1), NpPowNeg(FDiv(Num(x), Num(xmin)), alpha - 1))

\* The bounded branch normalised by xmax ** beta alone.
CdfBoundedNoOffset(x, alpha, xmin, xmax) ==
  FDiv(FSub(NpPowNeg(Num(x), alpha - 1), NpPowNeg(Num(xmin), alpha - 1)),
       NpPowNeg(Num(xmax[1]), alpha - 1))

\* One element of the bounded branch of cdf (lines 221-222).
CdfBounded(x, alpha, xmin, xmax) ==
  FDiv(FSub(NpPowNeg(Num(x), alpha - 1), NpPowNeg(Num(xmin), alpha - 1)),
       BoundedK(alpha, xmin, xmax))

\* cdf(x, alpha, xmin, xmax), elementwise over the points x.
cdf(x, alpha, xmin, xmax) ==
  IF ~(alpha > 1) THEN [status |-> "AssertionError", val |-> <<>>]
  ELSE IF NotXmax(xmax)
  THEN [status |-> "ok",
        val |-> [i \in 1..Len(x) |-> CdfUnbounded(x[i], alpha, xmin)]]
  ELSE IF xmin = 0 THEN [status |-> "ZeroDivisionError", val |-> <<>>]
  ELSE [status |-> "ok",
        val |-> [i \in 1..Len(x) |-> CdfBounded(x[i], alpha, xmin, xmax)]]

\* ------------------------------------------------------------- histogram
\* ceil(log2(n)) for n >= 1.
CeilLog2(n) ==
  CHOOSE k \in 0..n : IPow(2, k) >= n /\ (k = 0 \/ IPow(2, k - 1) < n)

\* Sturges' formula without its + 1.
NBinsNoPlusOne(n) == CeilLog2(n)

\* Sturges' formula (line 318).
NBins(n) == CeilLog2(n) + 1

SeqMin(s) == CHOOSE v \in {s[i] : i \in 1..Len(s)} :
               \A i \in 1..Len(s) : v <= s[i]

SeqMax(s) == CHOOSE v \in {s[i] : i \in 1..Len(s)} :
               \A i \in 1..Len(s) : v >= s[i]

\* arr[arr != 0.]
NonZero(arr) == SelectSeq(arr, LAMBDA v : v # 0)

\* np.logspace(np.log10(arrmin), np.log10(arrmax), num, base=10): point i of
\* num, counted from 0.  log10 of a negative number is nan and log10(0) is
\* -inf; linspace sets its last point to the stop value itself, and every
\* other point is start + i * step, nan when the start is.
LogSpacePoint(arrmin, arrmax, num, i) ==
  IF num > 1 /\ i = num - 1
  THEN (IF arrmax < 0 THEN NaN ELSE Num(arrmax))
  ELSE IF arrmin < 0 THEN NaN
  ELSE IF num = 1 THEN Num(arrmin)
  ELSE Root(IPow(arrmin, num - 1 - i) * IPow(arrmax, i), 1, num - 1)

\* _logbins(arr): the minimum of an empty selection raises ValueError.
logbins(arr) ==
  IF NonZero(arr) = <<>> THEN [status |-> "ValueError", bins |-> <<>>]
  ELSE LET nbins  == NBins(Len(arr))
           arrmin == SeqMin(NonZero(arr))
           arrmax == SeqMax(arr)
       IN  [status |-> "ok",
            bins |-> [j \in 1..nbins |->
                        LogSpacePoint(arrmin, arrmax, nbins, j - 1)]]

\* sorted(arr).searchsorted(e, side): how many elements lie left of e (side
\* "left": strictly below) or up to e (side "right"); nan sorts last.
SearchSorted(arr, e, side) ==
  IF e.t = "nan" THEN Len(arr)
  ELSE Cardinality({i \in 1..Len(arr) :
         IF side = "left" THEN Lt(Num(arr[i]), e) ELSE Le(Num(arr[i]), e)})

\* The raw frequency of bin i: every bin is half open but the last, which
\* is closed.
BinCount(arr, edges, i) ==
  SearchSorted(arr, edges[i + 1],
               IF i + 1 = Len(edges) THEN "right" ELSE "left")
  - SearchSorted(arr, edges[i], "left")

\* n / db / n.sum() for one bin: cnt / (hi - lo) / tot, in IEEE rules.
DensityVal(cnt, lo, hi, tot) ==
  IF lo.t = "nan" \/ hi.t = "nan" THEN NaN
  ELSE IF IsRat(lo) /\ IsRat(hi)
  THEN FDiv(FDiv(Num(cnt), FSub(hi, lo)), Num(tot))
  ELSE IF lo = hi THEN FDiv(FDiv(Num(cnt), Num(0)), Num(tot))
  ELSE IF cnt = 0 THEN FDiv(Num(0), Num(tot))
  ELSE [t |-> "sym", n |-> Rat(cnt, tot).n, d |-> Rat(cnt, tot).d, k |-> 1,
        w |-> <<lo, hi>>]

\* np.histogram(arr, bins=edges, density=density)[0]
NpHistogram(arr, edges, density) ==
  LET n   == [i \in 1..(Len(edges) - 1) |-> BinCount(arr, edges, i)]
      tot == SeqSum(n)
  IN  IF density
      THEN [i \in 1..(Len(edges) - 1) |->
              DensityVal(n[i], edges[i], edges[i + 1], tot)]
      ELSE [i \in 1..(Len(edges) - 1) |-> Num(n[i])]

\* The locals histogram sets before it reads its keyword options
\* (lines 280-282); extra holds the names assigned beyond these.
DefaultLocals ==
  [density |-> FALSE, mec |-> "none", mfc |-> "Black", ms |-> 5,
   xlab |-> "Observable (Units)", fs |-> 12, extra |-> {}]

\* The assignment "key = kwargs[key]" carried out on the locals.
Assign(loc, key, v) ==
  IF key = "density" THEN [loc EXCEPT !.density = v]
  ELSE IF key = "mec" THEN [loc EXCEPT !.mec = v]
  ELSE IF key = "mfc" THEN [loc EXCEPT !.mfc = v]
  ELSE IF key = "ms" THEN [loc EXCEPT !.ms = v]
  ELSE IF key = "xlab" THEN [loc EXCEPT !.xlab = v]
  ELSE IF key = "fs" THEN [loc EXCEPT !.fs = v]
  ELSE [loc EXCEPT !.extra = @ \cup {key}]

\* exec("%s = kwargs[key]" % key) inside the function.  Python 2's exec
\* statement binds the function's local; Python 3's exec function runs the
\* assignment in a copy of the locals and leaves the local as it was.
Exec(loc, key, v, py) == IF py = 2 THEN Assign(loc, key, v) ELSE loc

\* The loop over kwargs (lines 283-284); kwargs is a sequence of <<key, v>>.
RECURSIVE ParseKwargs(_, _, _)
ParseKwargs(loc, kwargs, py) ==
  IF kwargs = <<>> THEN loc
  ELSE ParseKwargs(Exec(loc, Head(kwargs)[1], Head(kwargs)[2], py),
                   Tail(kwargs), py)

\* histogram(arr, bins, plot, ax=None, **kwargs) under interpreter py.
\* bins is None or a list of edges; an empty list is as good as None.
histogram(arr, bins, plot, kwargs, py) ==
  LET loc == ParseKwargs(DefaultLocals, kwargs, py)
      lb  == IF bins = None THEN logbins(arr)
             ELSE [status |-> "ok", bins |-> [j \in 1..Len(bins) |-> Num(bins[j])]]
  IN  IF lb.status # "ok"
      THEN [status |-> lb.status, hist |-> <<>>, edges |-> <<>>,
            ax |-> FALSE, locals |-> loc]
      ELSE [status |-> "ok",
            hist |-> NpHistogram(arr, lb.bins, loc.density),
            edges |-> lb.bins, ax |-> plot, locals |-> loc]

\* ---------------------------------------------------------------- state
NoCall == [op |-> "none"]

Init ==
  /\ rng \in 0..(RngMod - 1)
  /\ seedOf = [c \in Callers |-> None]
  /\ ret = [c \in Callers |-> NoCall]

\* c has no call under way: calls are synchronous, one at a time per caller.
Idle(c) == ret[c] = NoCall

\* numpy.random.seed(sd), called by c ahead of a sample call.
Seed(c, sd) ==
  /\ rng' = SeedState(sd)
  /\ seedOf' = [seedOf EXCEPT ![c] = Some(sd)]
  /\ UNCHANGED ret

\* c calls sample: the deviates come from, and advance, the shared generator.
SampleCall(c, alpha, size, xmin, xmax) ==
  LET res == sample(rng, alpha, size, xmin, xmax)
  IN  /\ ret' = [ret EXCEPT ![c] =
                   [op |-> "sample", alpha |-> alpha, size |-> size,
                    xmin |-> xmin, xmax |-> xmax, seed |-> seedOf[c],
                    r |-> IF alpha > 1 THEN Rand(rng, size) ELSE <<>>,
                    status |-> res.status, val |-> res.val]]
      /\ rng' = IF alpha > 1 THEN RngAfter(rng, size) ELSE rng
      /\ seedOf' = [seedOf EXCEPT ![c] = None]

PdfCall(c, x, alpha, xmin, xmax) ==
  LET res == pdf(x, alpha, xmin, xmax)
  IN  /\ ret' = [ret EXCEPT ![c] =
                   [op |-> "pdf", x |-> x, alpha |-> alpha, xmin |-> xmin,
                    xmax |-> xmax, status |-> res.status, val |-> res.val]]
      /\ UNCHANGED <<rng, seedOf>>

CdfCall(c, x, alpha, xmin, xmax) ==
  LET res == cdf(x, alpha, xmin, xmax)
  IN  /\ ret' = [ret EXCEPT ![c] =
                   [op |-> "cdf", x |-> x, alpha |-> alpha, xmin |-> xmin,
                    xmax |-> xmax, status |-> res.status, val |-> res.val]]
      /\ UNCHANGED <<rng, seedOf>>

\* The caller takes the value its call returned and goes on.
Return(c) ==
  /\ ret[c] # NoCall
  /\ ret' = [ret EXCEPT ![c] = NoCall]
  /\ UNCHANGED <<rng, seedOf>>

\* c calls histogram under interpreter py.
HistogramCall(c, arr, bins, plot, kwargs, py) ==
  LET res == histogram(arr, bins, plot, kwargs, py)
  IN  /\ ret' = [ret EXCEPT ![c] =
                   [op |-> "histogram", arr |-> arr, bins |-> bins,
                    plot |-> plot, kwargs |-> kwargs, py |-> py] @@ res]
      /\ UNCHANGED <<rng, seedOf>>

XmaxArgs == {None} \cup {Some(v) : v \in 0..MaxX}

Points == UNION {[1..l -> 1..MaxX] : l \in 1..MaxPts}

\* An idle caller calls sample, pdf or cdf with arguments of its choice.
CallSample(c) ==
  /\ Idle(c)
  /\ \E alpha \in Alphas, size \in Sizes, xmin \in Xs, xmax \in XmaxArgs :
       SampleCall(c, alpha, size, xmin, xmax)

CallPdf(c) ==
  /\ Idle(c)
  /\ \E x \in Points, alpha \in Alphas, xmin \in Xs, xmax \in XmaxArgs :
       PdfCall(c, x, alpha, xmin, xmax)

CallCdf(c) ==
  /\ Idle(c)
  /\ \E x \in Points, alpha \in Alphas, xmin \in Xs, xmax \in XmaxArgs :
       CdfCall(c, x, alpha, xmin, xmax)

\* The distribution functions, one caller.
NextDist ==
  \/ Return(1)
  \/ \E sd \in Seeds : Seed(1, sd)
  \/ CallSample(1)
  \/ CallPdf(1)
  \/ CallCdf(1)

SpecDist == Init /\ [][NextDist]_vars

HistVals == (-1)..MaxVal

Arrays == UNION {[1..l -> HistVals] : l \in 0..MaxN}

BinsArgs == {None, <<1, MaxVal>>}

KwargSets == {<<>>, <<<<"density", TRUE>>>>, <<<<"density", FALSE>>>>,
              <<<<"ms", 8>>>>, <<<<"foo", 1>>>>}

Interpreters == {2, 3}

\* An idle caller calls histogram, under either interpreter.
CallHistogram(c) ==
  /\ Idle(c)
  /\ \E arr \in Arrays, bins \in BinsArgs, plot \in BOOLEAN,
        kwargs \in KwargSets, py \in Interpreters :
       HistogramCall(c, arr, bins, plot, kwargs, py)

\* The histogram, one caller.
NextHist ==
  \/ Return(1)
  \/ CallHistogram(1)

SpecHist == Init /\ [][NextHist]_vars

\* An idle caller draws a valid sample, unbounded or bounded.
CallSampleShared(c) ==
  /\ Idle(c)
  /\ \E size \in Sizes, xmax \in {None, Some(MaxX)} :
       SampleCall(c, 2, size, 1, xmax)

\* Two callers and more sharing the generator.
NextShared ==
  \/ \E c \in Callers : Return(c)
  \/ \E c \in Callers, sd \in Seeds : Seed(c, sd)
  \/ \E c \in Callers : CallSampleShared(c)

SpecShared == Init /\ [][NextShared]_vars

\* ------------------------------------------------------------ the claims
Calls(op) == {c \in Callers : ret[c].op = op}

DistCalls == {c \in Callers : ret[c].op \in {"sample", "pdf", "cdf"}}

\* The parameters the specification calls valid.
ValidParams(alpha, xmin, xmax) ==
  alpha > 1 /\ xmin > 0 /\ (xmax = None \/ xmax[1] > xmin)

Returned(c) == ret[c].status = "ok"

\* C1: sample, pdf and cdf fail, and return nothing, whenever alpha <= 1 or
\* xmin <= 0 or a given xmax is <= xmin (a given xmax of 0 included), and do
\* not fail on the parameter check when the parameters are valid.
C1_InvalidParametersRejected ==
  \A c \in DistCalls :
    IF ValidParams(ret[c].alpha, ret[c].xmin, ret[c].xmax)
    THEN ret[c].status # "AssertionError"
    ELSE ~Returned(c)

\* C2: for valid parameters every element sample returns lies in the
\* support: at or above xmin, and at or below xmax when xmax is given.
C2_SampleInSupport ==
  \A c \in Calls("sample") :
    ValidParams(ret[c].alpha, ret[c].xmin, ret[c].xmax) =>
      /\ Returned(c)
      /\ Len(ret[c].val) = ret[c].size
      /\ \A i \in 1..Len(ret[c].val) :
           /\ Le(Num(ret[c].xmin), ret[c].val[i])
           /\ ret[c].xmax # None => Le(ret[c].val[i], Num(ret[c].xmax[1]))

\* A bounded sample of full size under the largest exponent that holds the
\* lower end of the support (the deviate 0) and an irrational point inside.
C2_Witness ==
  \E c \in Calls("sample") :
    /\ ValidParams(ret[c].alpha, ret[c].xmin, ret[c].xmax)
    /\ ret[c].xmax # None /\ ret[c].alpha = MaxAlpha /\ ret[c].size = MaxSize
    /\ \E i \in 1..Len(ret[c].val) :
         ret[c].r[i] = Num(0) /\ ret[c].val[i] = Num(ret[c].xmin)
    /\ \E i \in 1..Len(ret[c].val) : ret[c].val[i].k > 1

\* C3: for valid parameters cdf is exactly 0 at x = xmin, bounded or not,
\* and exactly 1 at x = xmax when xmax is given.
C3_CdfAtBounds ==
  \A c \in Calls("cdf") :
    ValidParams(ret[c].alpha, ret[c].xmin, ret[c].xmax) =>
      /\ Returned(c)
      /\ \A i \in 1..Len(ret[c].x) :
           /\ ret[c].x[i] = ret[c].xmin => ret[c].val[i] = Num(0)
           /\ (ret[c].xmax # None /\ ret[c].x[i] = ret[c].xmax[1])
                => ret[c].val[i] = Num(1)

\* A bounded cdf evaluated at its upper bound under the largest exponent.
C3_Witness ==
  \E c \in Calls("cdf") :
    /\ ValidParams(ret[c].alpha, ret[c].xmin, ret[c].xmax)
    /\ ret[c].xmax # None /\ ret[c].alpha = MaxAlpha
    /\ \E i \in 1..Len(ret[c].x) :
         ret[c].x[i] = ret[c].xmax[1] /\ ret[c].val[i] = Num(1)

\* The histogram calls that leave the bins to the default.
DefaultBinCalls == {c \in Calls("histogram") : ret[c].bins = None}

\* C4: with default bins histogram fails on an empty sample, and fails on a
\* non-empty sample none of whose elements is strictly positive; in neither
\* case does it return counts or edges.
C4_DegenerateSampleRejected ==
  \A c \in DefaultBinCalls :
    (\A i \in 1..Len(ret[c].arr) : ret[c].arr[i] <= 0) => ~Returned(c)

NormalizeRequested(c) ==
  \E j \in 1..Len(ret[c].kwargs) : ret[c].kwargs[j] = <<"density", TRUE>>

\* C5: for a non-empty sample of strictly positive values, default bins and
\* normalisation off, the raw counts returned add up to the sample size.
C5_CountsSumToSize ==
  \A c \in DefaultBinCalls :
    ( /\ Len(ret[c].arr) >= 1
      /\ \A i \in 1..Len(ret[c].arr) : ret[c].arr[i] > 0
      /\ ~NormalizeRequested(c) ) =>
      /\ Returned(c)
      /\ SeqSum([i \in 1..Len(ret[c].hist) |-> ret[c].hist[i].n])
           = Len(ret[c].arr)
      /\ \A i \in 1..Len(ret[c].hist) : ret[c].hist[i].d = 1

\* C6: when normalisation is requested by keyword every returned count is
\* the raw frequency of its bin over (sample size * bin width); when it is
\* not, the counts are the raw frequencies.
C6_NormalizeOptionApplied ==
  \A c \in DefaultBinCalls :
    Returned(c) =>
      \A i \in 1..Len(ret[c].hist) :
        ret[c].hist[i] =
          IF NormalizeRequested(c)
          THEN DensityVal(BinCount(ret[c].arr, ret[c].edges, i),
                          ret[c].edges[i], ret[c].edges[i + 1],
                          Len(ret[c].arr))
          ELSE Num(BinCount(ret[c].arr, ret[c].edges, i))

C8_SeedDeterminesSample ==
  \A c \in Calls("sample"), e \in Calls("sample") :
    ( /\ ret[c].seed # None /\ ret[c].seed = ret[e].seed
      /\ ret[c].alpha = ret[e].alpha /\ ret[c].size = ret[e].size
      /\ ret[c].xmin = ret[e].xmin /\ ret[c].xmax = ret[e].xmax )
      => ret[c].val = ret[e].val

\* The options histogram documents.
KnownOptions == {"density", "mec", "mfc", "ms", "xlab", "fs"}

\* C9: a call that passes a keyword outside the documented options fails,
\* and the keyword is never assigned among the function's variables.
C9_UnknownOptionRejected ==
  \A c \in Calls("histogram") :
    (\E j \in 1..Len(ret[c].kwargs) : ret[c].kwargs[j][1] \notin KnownOptions)
      => ~Returned(c) /\ ret[c].locals.extra = {}

\* C10: whenever histogram returns with default bins, each edge is strictly
\* below the next.
C10_EdgesStrictlyIncreasing ==
  \A c \in DefaultBinCalls :
    Returned(c) =>
      \A i \in 1..(Len(ret[c].edges) - 1) :
        Lt(ret[c].edges[i], ret[c].edges[i + 1])

====
